---- MODULE Spec2Model ----
(***************************************************************************)
(* Model of the utilization tool: the ETL pipeline of src/src/etl.py       *)
(* (load_powerbi_export, map_competency_to_ssl, enrich_flags_and_util,     *)
(* compute_aggregates), the per-unit dataset and summary of                *)
(* src/src/render_excel.py, the summary formatting, the one-page layout    *)
(* (sizing and drawing) and the tile of src/src/render_pdf.py, the         *)
(* border, overlay and photo of src/src/render_html.py, the status derived *)
(* at render time, the run_etl call and report loop of                     *)
(* src/app/streamlit_app.py, and greet of src/hello.py.                    *)
(*                                                                         *)
(* Text is a sequence of one-character strings, so that strip, lower and   *)
(* split act on characters.  A spreadsheet cell is a record                *)
(* [k, v, s]: k = "nan" (empty cell), "num" (number v) or "str" (text s).  *)
(* Hours are integers; a ratio is kept as an unreduced fraction n/d.       *)
(***************************************************************************)
EXTENDS Integers, Sequences, FiniteSets, TLC

VARIABLES pc, sheet, columns, error, org_cfg, master, df, totals, unit,
          detail, summary, shown, name_in, name_out, name_twice,
          counts, cand, tried, chosen, fitted, rank_i, y_cursor, overflow,
          banner, blocks, tile, week, written, enrich_arg, derived

\* the state of the one-page layout and of the tile under the renderers
renderVars == <<counts, cand, tried, chosen, fitted, rank_i, y_cursor,
                overflow, banner, blocks, tile>>

\* the state of the application's run: the Week value of the export, the
\* reports written, the table passed to enrich_flags_and_util as the call
\* leaves it, and the statuses derived at render time
appVars == <<week, written, enrich_arg, derived>>

vars == <<pc, sheet, columns, error, org_cfg, master, df, totals, unit,
          detail, summary, shown, name_in, name_out, name_twice, renderVars,
          appVars>>

-----------------------------------------------------------------------------
(* Bounds of the model *)

MaxSheetRows == 2

MaxRecords == 2

MaxRoster == 2

MaxExportRows == 1

MaxNameLen == 4

MaxBusyRanks == 2

-----------------------------------------------------------------------------
(* Cells and text *)

Nan == [k |-> "nan", v |-> 0, s |-> <<>>]

Num(n) == [k |-> "num", v |-> n, s |-> <<>>]

Str(t) == [k |-> "str", v |-> 0, s |-> t]

NoneVal == <<"<", "N", "o", "n", "e", ">">>

UpperChars == <<"A","B","C","D","E","F","G","H","I","J","K","L","M",
                "N","O","P","Q","R","S","T","U","V","W","X","Y","Z">>

LowerChars == <<"a","b","c","d","e","f","g","h","i","j","k","l","m",
                "n","o","p","q","r","s","t","u","v","w","x","y","z">>

LowerChar(c) ==
    IF \E i \in 1..Len(UpperChars) : UpperChars[i] = c
    THEN LowerChars[CHOOSE i \in 1..Len(UpperChars) : UpperChars[i] = c]
    ELSE c

\* str.lower()
Lower(t) == [i \in 1..Len(t) |-> LowerChar(t[i])]

IsSpace(c) == c = " "

\* str.strip(): drop leading and trailing whitespace
Strip(t) ==
    LET keep == {i \in 1..Len(t) : ~IsSpace(t[i])}
    IN  IF keep = {} THEN <<>>
        ELSE LET lo == CHOOSE i \in keep : \A j \in keep : i <= j
                 hi == CHOOSE i \in keep : \A j \in keep : j <= i
             IN  SubSeq(t, lo, hi)

\* Series.astype(str) on a text column: an empty cell becomes "nan"
AsStr(c) == IF c.k = "str" THEN c.s ELSE <<"n", "a", "n">>

\* Series.notna()
NotNa(c) == c.k # "nan"

\* pd.to_numeric(errors="coerce").fillna(0.0): text and empty cells give 0,
\* a number is passed through as it is
ToNumericFill0(c) == IF c.k = "num" THEN c.v ELSE 0

\* Series.fillna(0).astype(int) on the 0/1 indicator column
FillInt(c) == IF c.k = "num" THEN c.v ELSE 0

\* boolean indexing df[mask]: the rows at the positions in idxs, in order
RowsAt(rows, idxs) ==
    LET nth(k) == CHOOSE i \in idxs : Cardinality({j \in idxs : j < i}) = k - 1
    IN  [k \in 1..Cardinality(idxs) |-> rows[nth(k)]]

-----------------------------------------------------------------------------
(* etl.py: name normalisation *)

sTotal == <<"t", "o", "t", "a", "l">>

HasComma(t) == \E i \in 1..Len(t) : t[i] = ","

FirstComma(t) == CHOOSE i \in 1..Len(t) : t[i] = "," /\ \A j \in 1..(i-1) : t[j] # ","

\* a normalisation that does not strip the two parts
normalize_display_name_raw_parts(c) ==
    IF c.k # "str" THEN <<>>
    ELSE LET name == Strip(c.s)
         IN  IF HasComma(name)
             THEN LET p == FirstComma(name)
                  IN  SubSeq(name, p + 1, Len(name)) \o <<" ">> \o SubSeq(name, 1, p - 1)
             ELSE name

\* normalize_display_name(pbi_name): the argument is a cell, so that a
\* non-string argument can be passed
normalize_display_name(c) ==
    IF c.k # "str" THEN <<>>
    ELSE LET name == Strip(c.s)
         IN  IF HasComma(name)
             THEN LET p     == FirstComma(name)
                      last  == SubSeq(name, 1, p - 1)
                      first == SubSeq(name, p + 1, Len(name))
                  IN  Strip(first) \o <<" ">> \o Strip(last)
             ELSE name

-----------------------------------------------------------------------------
(* etl.py: load_powerbi_export *)

\* total_mask: Employee Name, as text, stripped and lower-cased, equals "total"
IsTotalRow(r) == Lower(Strip(AsStr(r.Name))) = sTotal

\* a truncation that keeps the Total row itself
TruncateAtTotal_keep_total(rows) ==
    LET tot == {i \in 1..Len(rows) : IsTotalRow(rows[i])}
    IN  IF tot = {} THEN rows
        ELSE SubSeq(rows, 1, CHOOSE i \in tot : \A j \in tot : i <= j)

\* df.iloc[: total_positions[0]] when a Total row exists, else df
TruncateAtTotal(rows) ==
    LET tot == {i \in 1..Len(rows) : IsTotalRow(rows[i])}
    IN  IF tot = {} THEN rows
        ELSE SubSeq(rows, 1, (CHOOSE i \in tot : \A j \in tot : i <= j) - 1)

\* df[df["GPN"].notna()]
HasGPN(r) == NotNa(r.GPN)

DropMissingGPN(rows) == RowsAt(rows, {i \in 1..Len(rows) : HasGPN(rows[i])})

\* the columns of the export that the loader knows
AllColumns == {"GPN", "Employee Name", "Competency", "Rank Description",
               "Missing Timesheets", "Employee Status",
               "Effective Available Hours", "Chargeable Hours"}

\* the columns read without a test for their presence:
\* df["GPN"], df["Employee Name"], df["Competency"]
KeyColumns == {"GPN", "Employee Name", "Competency"}

\* the field normalisation of one kept row; a column that is tested for and
\* is absent gets its default
NormalizeRow(cols, r) ==
    [index             |-> r.index,
     GPN               |-> Strip(AsStr(r.GPN)),
     Name              |-> Strip(AsStr(r.Name)),
     display_name_auto |-> normalize_display_name(Str(Strip(AsStr(r.Name)))),
     Competency        |-> Strip(AsStr(r.Competency)),
     Rank              |-> IF "Rank Description" \in cols
                           THEN Strip(AsStr(r.Rank)) ELSE <<>>,
     MissingTimesheets |-> IF "Missing Timesheets" \in cols
                           THEN FillInt(r.Missing) ELSE 0,
     EmployeeStatus    |-> IF "Employee Status" \in cols
                           THEN r.Status ELSE Str(<<>>),
     Avail             |-> IF "Effective Available Hours" \in cols
                           THEN ToNumericFill0(r.Avail) ELSE 0,
     Charge            |-> IF "Chargeable Hours" \in cols
                           THEN ToNumericFill0(r.Charge) ELSE 0]

\* the table read from the sheet, each row labelled with its position
ReadExcel(rows) == [i \in 1..Len(rows) |-> rows[i] @@ [index |-> i]]

\* the rows kept: truncation when there is an Employee Name column, the
\* identifier filter when there is a GPN column
KeptRows(cols, rows) ==
    LET cut == IF "Employee Name" \in cols
               THEN TruncateAtTotal(ReadExcel(rows)) ELSE ReadExcel(rows)
    IN  IF "GPN" \in cols THEN DropMissingGPN(cut) ELSE cut

LoadRows(cols, rows) ==
    LET kept == KeptRows(cols, rows)
    IN  [i \in 1..Len(kept) |-> NormalizeRow(cols, kept[i])]

\* the exception of df[col] for a column that is not there
sKeyError == "KeyError"

\* the load raises when one of the columns read unconditionally is absent
LoadRaises(cols) == ~(KeyColumns \subseteq cols)

load_powerbi_export ==
    /\ pc = "start"
    /\ IF LoadRaises(columns)
       THEN /\ error' = sKeyError
            /\ pc' = "failed"
            /\ df' = df
       ELSE /\ df' = LoadRows(columns, sheet)
            /\ pc' = "loaded"
            /\ error' = error
    /\ UNCHANGED <<sheet, org_cfg, master, totals, unit, detail, summary,
                   shown, name_in, name_out, name_twice,
                   columns, renderVars, appVars>>

-----------------------------------------------------------------------------
(* etl.py: map_competency_to_ssl *)

\* lookup[ca] = (bu, ssl), built by iterating over the configuration: a
\* later declaration of the same competency area overwrites an earlier one
InLookup(cfg, ca) == \E i \in 1..Len(cfg) : cfg[i].ca = ca

Lookup(cfg, ca) ==
    cfg[CHOOSE i \in 1..Len(cfg) :
            cfg[i].ca = ca /\ \A j \in (i+1)..Len(cfg) : cfg[j].ca # ca]

MapRow(cfg, r) ==
    LET hit == InLookup(cfg, r.Competency)
        bu  == IF hit THEN Lookup(cfg, r.Competency).bu ELSE NoneVal
        ssl == IF hit THEN Lookup(cfg, r.Competency).ssl ELSE NoneVal
    IN  r @@ [BU |-> bu, SSL |-> ssl,
              unmapped_competency |-> (bu = NoneVal \/ ssl = NoneVal)]

map_competency_to_ssl ==
    /\ pc = "loaded"
    /\ df' = [i \in 1..Len(df) |-> MapRow(org_cfg, df[i])]
    /\ pc' = "mapped"
    /\ UNCHANGED <<sheet, org_cfg, master, totals, unit, detail, summary,
                   shown, name_in, name_out, name_twice,
                   columns, error, renderVars, appVars>>

-----------------------------------------------------------------------------
(* Ratios: a float result is a fraction n/d, NaN or pd.NA *)

RNum(n, d) == [k |-> "num", n |-> n, d |-> d]

RNaN == [k |-> "nan", n |-> 0, d |-> 1]

RNA == [k |-> "NA", n |-> 0, d |-> 1]

RInf == [k |-> "inf", n |-> 0, d |-> 1]

\* Series.replace(0, np.nan)
Replace0(c) == IF c.k = "num" /\ c.v = 0 THEN Nan ELSE c

\* element-wise float division a / b of two numeric cells
Div(a, b) ==
    IF a.k # "num" \/ b.k # "num" THEN RNaN
    ELSE IF b.v # 0 THEN RNum(a.v, b.v)
    ELSE IF a.v = 0 THEN RNaN ELSE RInf

-----------------------------------------------------------------------------
(* etl.py: enrich_flags_and_util *)

sInactive == <<"i", "n", "a", "c", "t", "i", "v", "e">>

\* a vacation flag for negative hours only
VacationFlag_negative_only(avail) == avail < 0

\* out["Effective Available Hours"] <= 0
VacationFlag(avail) == avail <= 0

\* chargeable / available.replace(0, np.nan)
RowUtil(r) == Div(Num(r.Charge), Replace0(Num(r.Avail)))

EnrichRow(r) ==
    r @@ [missing_timesheet |-> (r.MissingTimesheets = 1),
          vacation          |-> VacationFlag(r.Avail),
          inactive_leave    |-> (Lower(AsStr(r.EmployeeStatus)) = sInactive),
          util              |-> RowUtil(r)]

\* out = df.copy() followed by assignments to out
EnrichRows(rows) == [i \in 1..Len(rows) |-> EnrichRow(rows[i])]

\* an enrichment that assigns its columns to the table it was given
ArgAfterEnrich_in_place(rows) == EnrichRows(rows)

\* the table passed in, after the call: every assignment went to the copy
ArgAfterEnrich(rows) == rows

enrich_flags_and_util ==
    /\ pc = "mapped"
    /\ df' = EnrichRows(df)
    /\ enrich_arg' = ArgAfterEnrich(df)
    /\ pc' = "enriched"
    /\ UNCHANGED <<sheet, org_cfg, master, totals, unit, detail, summary,
                   shown, name_in, name_out, name_twice,
                   columns, error, renderVars, week, written, derived>>

-----------------------------------------------------------------------------
(* etl.py: compute_aggregates *)

RECURSIVE SeqSum(_)
SeqSum(q) == IF q = <<>> THEN 0 ELSE Head(q) + SeqSum(Tail(q))

\* base that keeps the vacation rows
NonVacation_keep_all(rows) == rows

\* base = df[~df["vacation"]]
NonVacation(rows) == RowsAt(rows, {i \in 1..Len(rows) : ~rows[i].vacation})

\* base[~base["missing_timesheet"]]
NotMissing(rows) == RowsAt(rows, {i \in 1..Len(rows) : ~rows[i].missing_timesheet})

\* the rows of one group of groupby(["BU", "SSL"])
GroupRows(rows, key) ==
    RowsAt(rows, {i \in 1..Len(rows) : <<rows[i].BU, rows[i].SSL>> = key})

\* the group keys of a groupby that drops the rows with a missing key
GroupKeys_dropna(rows) ==
    {<<rows[i].BU, rows[i].SSL>> : i \in 1..Len(rows)}
        \ {k \in {<<rows[i].BU, rows[i].SSL>> : i \in 1..Len(rows)} :
               k[1] = NoneVal \/ k[2] = NoneVal}

\* the group keys of groupby(["BU", "SSL"], dropna=False): a missing unit
\* is a key like any other
GroupKeys(rows) == {<<rows[i].BU, rows[i].SSL>> : i \in 1..Len(rows)}

\* a headcount that counts rows instead of distinct identifiers
NUnique_count_rows(rows) == Len(rows)

\* ("GPN", "nunique")
NUnique(rows) == Cardinality({rows[i].GPN : i \in 1..Len(rows)})

SumCharge(rows) == SeqSum([i \in 1..Len(rows) |-> rows[i].Charge])

SumAvail(rows) == SeqSum([i \in 1..Len(rows) |-> rows[i].Avail])

\* ("missing_timesheet", "sum")
CountMissing(rows) == Cardinality({i \in 1..Len(rows) : rows[i].missing_timesheet})

\* one row of grp.merge(excl, how="left") with the two ratios
TotalsRow(base, key) ==
    LET g        == GroupRows(base, key)
        e        == GroupRows(NotMissing(base), key)
        hasExcl  == key \in GroupKeys(NotMissing(base))
        tc       == Num(SumCharge(g))
        ta       == Num(SumAvail(g))
        tce      == IF hasExcl THEN Num(SumCharge(e)) ELSE Nan
        tae      == IF hasExcl THEN Num(SumAvail(e)) ELSE Nan
    IN  [BU |-> key[1], SSL |-> key[2],
         total_chargeable |-> tc, total_available |-> ta,
         headcount |-> NUnique(g),
         missing_timesheets |-> CountMissing(g),
         total_chargeable_excl_missing |-> tce,
         total_available_excl_missing |-> tae,
         util_all |-> Div(tc, Replace0(ta)),
         util_excl_missing |-> Div(tce, Replace0(tae))]

Aggregates(rows) ==
    LET base == NonVacation(rows)
    IN  {TotalsRow(base, key) : key \in GroupKeys(base)}

compute_aggregates ==
    /\ pc = "enriched"
    /\ totals' = Aggregates(df)
    /\ pc' = "aggregated"
    /\ UNCHANGED <<sheet, org_cfg, master, df, unit, detail, summary,
                   shown, name_in, name_out, name_twice,
                   columns, error, renderVars, appVars>>

-----------------------------------------------------------------------------
(* render_excel.py: build_ssl_dataset *)

TrueWords == {<<"t","r","u","e">>, <<"1">>, <<"y","e","s">>, <<"y">>, <<"t">>}

\* _bool_from_str(value) on a text value
_bool_from_str(t) == Lower(Strip(t)) \in TrueWords

\* a filter that keeps the active members of every unit
ActiveMaster_any_unit(ms, bu, ssl) ==
    RowsAt(ms, {i \in 1..Len(ms) : _bool_from_str(ms[i].active)})

\* master[master["active_bool"]] filtered to the rows of (bu, ssl)
ActiveMaster(ms, bu, ssl) ==
    RowsAt(ms, {i \in 1..Len(ms) :
                    /\ _bool_from_str(ms[i].active)
                    /\ Strip(ms[i].bu) = bu
                    /\ Strip(ms[i].ssl) = ssl})

\* status.mask(cond, value)
Mask(status, cond, value) == IF cond THEN value ELSE status

\* the chain with the Vacation mask applied before the Missing-timesheet mask
StatusChain_vacation_first(unmapped, missing_ts, vacation, on_leave) ==
    Mask(Mask(Mask(Mask("Normal", unmapped, "Unmapped"),
                   vacation, "Vacation"),
              missing_ts, "Missing timesheet"),
         on_leave, "On leave")

\* the chain of masks over the initial "Normal": each later mask overwrites
StatusChain(unmapped, missing_ts, vacation, on_leave) ==
    Mask(Mask(Mask(Mask("Normal", unmapped, "Unmapped"),
                   missing_ts, "Missing timesheet"),
              vacation, "Vacation"),
         on_leave, "On leave")

\* one row of the left merge with a matching export row x
DetailMatched(m, x) ==
    [gpn |-> Strip(m.gpn), bu |-> m.bu, ssl |-> m.ssl,
     effective_available_hours |-> Num(x.Avail),
     chargeable_hours |-> Num(x.Charge),
     util |-> x.util,
     missing_timesheet |-> x.missing_timesheet,
     vacation |-> x.vacation,
     inactive_leave |-> x.inactive_leave,
     unmapped_competency |-> x.unmapped_competency,
     on_leave_master |-> _bool_from_str(m.on_leave),
     status |-> StatusChain(x.unmapped_competency, x.missing_timesheet,
                            x.vacation,
                            _bool_from_str(m.on_leave) \/ x.inactive_leave)]

\* one row of the left merge without a match: the export columns are NaN,
\* the flags are filled with False and missing_in_export is True
DetailAbsent(m) ==
    [gpn |-> Strip(m.gpn), bu |-> m.bu, ssl |-> m.ssl,
     effective_available_hours |-> Nan,
     chargeable_hours |-> Nan,
     util |-> RNaN,
     missing_timesheet |-> FALSE,
     vacation |-> FALSE,
     inactive_leave |-> FALSE,
     unmapped_competency |-> FALSE,
     on_leave_master |-> _bool_from_str(m.on_leave),
     status |-> StatusChain(FALSE, FALSE, FALSE, TRUE)]

\* the rows a roster member contributes to the left merge
MergeOne(m, raw) ==
    LET hits == RowsAt(raw, {i \in 1..Len(raw) : Strip(raw[i].GPN) = Strip(m.gpn)})
    IN  IF hits = <<>> THEN <<DetailAbsent(m)>>
        ELSE [i \in 1..Len(hits) |-> DetailMatched(m, hits[i])]

RECURSIVE MergeLeft(_, _)
MergeLeft(ms, raw) ==
    IF ms = <<>> THEN <<>>
    ELSE MergeOne(Head(ms), raw) \o MergeLeft(Tail(ms), raw)

BuildDataset(ms, raw, bu, ssl) == MergeLeft(ActiveMaster(ms, bu, ssl), raw)

\* the units a report is generated for
ReportUnits(cfg) == {<<cfg[i].bu, cfg[i].ssl>> : i \in 1..Len(cfg)}

\* a dataset step that does not wait for the aggregation
build_ssl_dataset_before_aggregates ==
    /\ pc = "enriched"
    /\ \E u \in ReportUnits(org_cfg) :
          /\ unit' = u
          /\ detail' = BuildDataset(master, df, u[1], u[2])
    /\ pc' = "dataset"
    /\ UNCHANGED <<sheet, org_cfg, master, df, totals, summary,
                   shown, name_in, name_out, name_twice,
                   columns, error, renderVars, appVars>>

build_ssl_dataset ==
    /\ pc = "aggregated"
    /\ \E u \in ReportUnits(org_cfg) :
          /\ unit' = u
          /\ detail' = BuildDataset(master, df, u[1], u[2])
    /\ pc' = "dataset"
    /\ UNCHANGED <<sheet, org_cfg, master, df, totals, summary,
                   shown, name_in, name_out, name_twice,
                   columns, error, renderVars, appVars>>

-----------------------------------------------------------------------------
(* render_excel.py: build_ssl_summary *)

\* totals["BU"].astype(str).str.strip(): a missing key reads "nan"
KeyStr(x) == IF x = NoneVal THEN <<"n", "a", "n">> ELSE Strip(x)

\* totals_row.get(col, pd.NA) on the first totals row of the unit, or on
\* the empty Series when the unit has no totals row
TotalsOf(tot, bu, ssl) == {t \in tot : KeyStr(t.BU) = bu /\ KeyStr(t.SSL) = ssl}

UtilAllOf(tot, bu, ssl) ==
    IF TotalsOf(tot, bu, ssl) = {} THEN RNA
    ELSE (CHOOSE t \in TotalsOf(tot, bu, ssl) : TRUE).util_all

UtilExclOf(tot, bu, ssl) ==
    IF TotalsOf(tot, bu, ssl) = {} THEN RNA
    ELSE (CHOOSE t \in TotalsOf(tot, bu, ssl) : TRUE).util_excl_missing

BuildSummary(tot, ms, raw, bu, ssl) ==
    LET d       == BuildDataset(ms, raw, bu, ssl)
        gpns    == {Strip(raw[i].GPN) : i \in 1..Len(raw)}
        present == Cardinality({i \in 1..Len(d) : d[i].gpn \in gpns})
    IN  [util_all          |-> UtilAllOf(tot, bu, ssl),
         util_excl_missing |-> UtilExclOf(tot, bu, ssl),
         headcount         |-> Len(d),
         present           |-> present,
         missing           |-> Len(d) - present,
         missing_ts        |-> Cardinality({i \in 1..Len(d) : d[i].missing_timesheet}),
         vacation          |-> Cardinality({i \in 1..Len(d) : d[i].vacation}),
         on_leave          |-> Cardinality({i \in 1..Len(d) : d[i].status = "On leave"})]

build_ssl_summary ==
    /\ pc = "dataset"
    /\ summary' = BuildSummary(totals, master, df, unit[1], unit[2])
    /\ pc' = "summary"
    /\ UNCHANGED <<sheet, org_cfg, master, df, totals, unit, detail,
                   shown, name_in, name_out, name_twice,
                   columns, error, renderVars, appVars>>

-----------------------------------------------------------------------------
(* etl.py: run_etl, and its call and the report loop of streamlit_app.py *)

\* the Week value of the export: "resolved" (found in the week
\* configuration), "absent" (no Week column), "empty" (no value in it) or
\* "unknown" (not in the week configuration)
WeekStates == {"resolved", "absent", "empty", "unknown"}

sValueError == "ValueError"

\* the exception run_etl ends with, or "none"
RunError(cols, wk) ==
    IF LoadRaises(cols) THEN sKeyError
    ELSE IF wk # "resolved" THEN sValueError
    ELSE "none"

\* df after load, map and enrich
RunRows(cols, rows, cfg) ==
    LET loaded == LoadRows(cols, rows)
        mapped == [i \in 1..Len(loaded) |-> MapRow(cfg, loaded[i])]
    IN  EnrichRows(mapped)

\* an application that carries on after a failed run
AfterRun_carry_on(err) == "aggregated"

\* where the application is after the call of run_etl: st.stop() after a
\* ValueError, the script aborted by any other exception
AfterRun(err) ==
    IF err = "none" THEN "aggregated"
    ELSE IF err = sValueError THEN "stopped" ELSE "failed"

\* run_etl as the application calls it
run_etl ==
    /\ pc = "run"
    /\ LET err == RunError(columns, week)
       IN  /\ error' = err
           /\ pc' = AfterRun(err)
           /\ IF err = "none"
              THEN /\ df' = RunRows(columns, sheet, org_cfg)
                   /\ totals' = Aggregates(RunRows(columns, sheet, org_cfg))
              ELSE UNCHANGED <<df, totals>>
    /\ UNCHANGED <<sheet, org_cfg, master, unit, detail, summary,
                   shown, name_in, name_out, name_twice,
                   columns, renderVars, appVars>>

\* write_ssl_excel for the unit of the loop, and the loop's next pass
write_ssl_excel ==
    /\ pc = "summary"
    /\ written' = written \cup {unit}
    /\ pc' = IF written' = ReportUnits(org_cfg) THEN "generated" ELSE "aggregated"
    /\ UNCHANGED <<sheet, org_cfg, master, df, totals, unit, detail, summary,
                   shown, name_in, name_out, name_twice,
                   columns, error, renderVars, week, enrich_arg, derived>>

-----------------------------------------------------------------------------
(* render_pdf.py: _fmt_percent and the summary box *)

Digits == <<"0","1","2","3","4","5","6","7","8","9">>

RECURSIVE IntStr(_)
IntStr(n) ==
    IF n < 10 THEN <<Digits[n + 1]>>
    ELSE IntStr(n \div 10) \o <<Digits[(n % 10) + 1]>>

\* a / b for b > 0 rounded to the nearest integer, ties to even
RoundHalfEven(a, b) ==
    LET q == a \div b
        r == a % b
    IN  IF 2 * r < b THEN q
        ELSE IF 2 * r > b THEN q + 1
        ELSE IF q % 2 = 0 THEN q ELSE q + 1

\* f"{fval * 100:.1f}%"
PercentText(n, d) ==
    LET tenths == IF d > 0 THEN RoundHalfEven(1000 * n, d)
                  ELSE RoundHalfEven(-1000 * n, -d)
        mag    == IF tenths < 0 THEN -tenths ELSE tenths
        sign   == IF tenths < 0 THEN <<"-">> ELSE <<>>
    IN  sign \o IntStr(mag \div 10) \o <<".">> \o <<Digits[(mag % 10) + 1]>> \o <<"%">>

\* _fmt_percent(val): float(val) succeeds on a number and on NaN, and
\* raises on pd.NA and None, which gives the dash
_fmt_percent(val) ==
    CASE val.k = "num" -> PercentText(val.n, val.d)
      [] val.k = "nan" -> <<"n", "a", "n", "%">>
      [] val.k = "inf" -> <<"i", "n", "f", "%">>
      [] OTHER         -> <<"-">>

draw_header_and_summary ==
    /\ pc = "summary"
    /\ shown' = [util_all          |-> _fmt_percent(summary.util_all),
                 util_excl_missing |-> _fmt_percent(summary.util_excl_missing)]
    /\ pc' = "drawn"
    /\ UNCHANGED <<sheet, org_cfg, master, df, totals, unit, detail, summary,
                   name_in, name_out, name_twice,
                   columns, error, renderVars, appVars>>

-----------------------------------------------------------------------------
(* Applying normalize_display_name to an argument, and to its own result *)

normalize_once ==
    /\ pc = "name"
    /\ name_out' = normalize_display_name(name_in)
    /\ pc' = "named"
    /\ UNCHANGED <<sheet, org_cfg, master, df, totals, unit, detail, summary,
                   shown, name_in, name_twice,
                   columns, error, renderVars, appVars>>

normalize_twice ==
    /\ pc = "named"
    /\ name_twice' = normalize_display_name(Str(name_out))
    /\ pc' = "renamed"
    /\ UNCHANGED <<sheet, org_cfg, master, df, totals, unit, detail, summary,
                   shown, name_in, name_out,
                   columns, error, renderVars, appVars>>

-----------------------------------------------------------------------------
(* hello.py: greet and main *)

sHello == <<"H", "e", "l", "l", "o", ",", " ">>

sHelloWorld == sHello \o <<"W", "o", "r", "l", "d", "!">>

\* bool(name): None, the empty string and 0 are falsy
Truthy(c) ==
    \/ c.k = "str" /\ c.s # <<>>
    \/ c.k = "num" /\ c.v # 0

\* f"{name}": str(name)
Format(c) == IF c.k = "str" THEN c.s ELSE IntStr(c.v)

\* a greeting that takes a blank name for no name
greet_blank_is_world(c) ==
    IF Truthy(c) /\ (c.k = "str" => Strip(c.s) # <<>>)
    THEN sHello \o Format(c) \o <<"!">>
    ELSE sHelloWorld

\* greet(name): the argument is a cell, so that None can be passed
greet(c) ==
    IF Truthy(c) THEN sHello \o Format(c) \o <<"!">> ELSE sHelloWorld

\* main(): print(greet(name))
main ==
    /\ pc = "greet"
    /\ name_out' = greet(name_in)
    /\ pc' = "greeted"
    /\ UNCHANGED <<sheet, org_cfg, master, df, totals, unit, detail, summary,
                   shown, name_in, name_twice,
                   columns, error, renderVars, appVars>>

-----------------------------------------------------------------------------
(* render_pdf.py: write_ssl_pdf, sizing the tiles of the one-page wall *)

\* landscape(A4) is 841.89 x 595.28 points.  Every other length of the
\* layout is a whole number, and the page lengths are only compared with
\* and floor-divided by whole numbers, so their whole parts decide.
page_w == 841

page_h == 595

margin == 30

header_h == 26

summary_h == 55

gap_after_summary == 12

col_gap == 6

row_gap == 8

title_h == 12

section_gap == 4

ranks == <<"Partner", "Associate Partner", "Director", "Senior Manager",
           "Manager", "Senior Consultant", "Consultant">>

split_rank == "Manager"

\* the candidate photo sizes, in the order they are tried
sizes == <<90, 80, 75, 70, 65, 60, 55, 50, 46, 42, 38, 34>>

\* the size drawn with when no candidate was chosen
fallback_size == 34

available_w == page_w - 2 * margin

\* what draw_header_and_summary returns: box_bottom - gap_after_summary
y_start == ((page_h - margin) - header_h - summary_h) - gap_after_summary

available_h == y_start - margin

Max(a, b) == IF a >= b THEN a ELSE b

tile_w(photo_size) == photo_size + 12

name_h(photo_size) == IF photo_size > 42 THEN 9 ELSE 0

util_h(photo_size) == IF photo_size >= 70 THEN 8 ELSE 0

tile_h(photo_size) == photo_size + name_h(photo_size) + util_h(photo_size) + 6

\* max(1, int((available_w + col_gap) // (tile_w + col_gap)))
cols(photo_size) ==
    Max(1, (available_w + col_gap) \div (tile_w(photo_size) + col_gap))

\* a row count that rounds down
rows_for_floor(n, c) == n \div c

\* rows = (n + cols - 1) // cols
rows_for(n, c) == (n + c - 1) \div c

\* the increment after the block of the split rank
divider(rank) == IF rank = split_rank THEN 10 ELSE 0

\* a block height that charges the divider to an empty split rank
block_height_empty_divider(rank, n, photo_size) ==
    IF n = 0 THEN divider(rank)
    ELSE (title_h + 3)
         + rows_for(n, cols(photo_size)) * tile_h(photo_size)
         + (rows_for(n, cols(photo_size)) - 1) * row_gap
         + 10 + divider(rank) + section_gap

\* what one rank adds to total in required_height: nothing when n = 0
block_height(rank, n, photo_size) ==
    IF n = 0 THEN 0
    ELSE (title_h + 3)
         + rows_for(n, cols(photo_size)) * tile_h(photo_size)
         + (rows_for(n, cols(photo_size)) - 1) * row_gap
         + 10 + divider(rank) + section_gap

RECURSIVE height_upto(_, _, _)
height_upto(cnt, photo_size, k) ==
    IF k = 0 THEN 0
    ELSE height_upto(cnt, photo_size, k - 1)
         + block_height(ranks[k], cnt[ranks[k]], photo_size)

required_height(cnt, photo_size) == height_upto(cnt, photo_size, Len(ranks))

\* a test that accepts a size needing more than the available height
fits_loose(cnt, photo_size) == required_height(cnt, photo_size) <= available_h + 100

\* required_height(size) <= available_h
fits(cnt, photo_size) == required_height(cnt, photo_size) <= available_h

\* one pass of the loop over the candidate sizes; the last pass that does
\* not fit falls through to the fallback size
choose_size ==
    /\ pc = "sizing"
    /\ LET size == sizes[cand]
           last == cand = Len(sizes)
       IN  /\ tried' = [size  |-> size,
                        cols  |-> cols(size),
                        rows  |-> [k \in 1..Len(ranks) |->
                                     IF counts[ranks[k]] = 0 THEN 0
                                     ELSE rows_for(counts[ranks[k]], cols(size))],
                        total |-> required_height(counts, size)]
           /\ IF fits(counts, size) \/ last
              THEN /\ chosen' = IF fits(counts, size) THEN size ELSE fallback_size
                   /\ fitted' = fits(counts, size)
                   /\ y_cursor' = y_start
                   /\ pc' = "drawing"
                   /\ cand' = cand
              ELSE /\ cand' = cand + 1
                   /\ UNCHANGED <<chosen, fitted, y_cursor, pc, appVars>>
    /\ UNCHANGED <<sheet, columns, error, org_cfg, master, df, totals, unit,
                   detail, summary, shown, name_in, name_out, name_twice,
                   counts, rank_i, overflow, banner, blocks, tile, appVars>>

-----------------------------------------------------------------------------
(* render_pdf.py: write_ssl_pdf, drawing the blocks *)

\* an overflow test that never finds a row below the margin
below_margin_never(row_top, photo_size) == FALSE

\* row_top - tile_h < margin
below_margin(row_top, photo_size) == row_top - tile_h(photo_size) < margin

Min(a, b) == IF a <= b THEN a ELSE b

\* the loop over the tiles of one section, one row of tiles at a time: k
\* tiles are left and the row at row_top is empty.  col reaches cols after
\* cols tiles, and row_top only changes at the wrap, so the test against
\* the margin gives the same answer for every tile of a row: a row is
\* either drawn to its end or not begun.
RECURSIVE draw_tiles(_, _, _, _)
draw_tiles(k, row_top, drawn, photo_size) ==
    IF k = 0 THEN [overflow |-> FALSE, row_top |-> row_top, drawn |-> drawn]
    ELSE IF below_margin(row_top, photo_size)
    THEN [overflow |-> TRUE, row_top |-> row_top, drawn |-> drawn]
    ELSE LET m == Min(k, cols(photo_size))
         IN  IF k = m
             THEN [overflow |-> FALSE, row_top |-> row_top, drawn |-> drawn + m]
             ELSE draw_tiles(k - m, row_top - (tile_h(photo_size) + row_gap),
                             drawn + m, photo_size)

\* a cursor that leaves a gap of 200 under each block
after_block_wide(row_top, photo_size) == row_top - tile_h(photo_size) - 200

\* y_cursor = row_top - tile_h - 10
after_block(row_top, photo_size) == row_top - tile_h(photo_size) - 10

\* one pass of the loop over the ranks
draw_rank ==
    /\ pc = "drawing"
    /\ rank_i <= Len(ranks)
    /\ ~overflow
    /\ LET rank == ranks[rank_i]
           n    == counts[rank]
           top  == y_cursor - (title_h + 3)
           res  == draw_tiles(n, top, 0, chosen)
       IN  IF n = 0
           THEN /\ rank_i' = rank_i + 1
                /\ UNCHANGED <<y_cursor, overflow, blocks, appVars>>
           ELSE /\ overflow' = res.overflow
                /\ blocks' = Append(blocks,
                                    [rank    |-> rank,
                                     title_y |-> y_cursor,
                                     drawn   |-> res.drawn,
                                     bottom  |-> res.row_top - tile_h(chosen)])
                /\ IF res.overflow
                   THEN /\ y_cursor' = top
                        /\ rank_i' = rank_i
                   ELSE /\ y_cursor' = after_block(res.row_top, chosen) - divider(rank)
                        /\ rank_i' = rank_i + 1
    /\ UNCHANGED <<pc, sheet, columns, error, org_cfg, master, df, totals, unit,
                   detail, summary, shown, name_in, name_out, name_twice,
                   counts, cand, tried, chosen, fitted, banner, tile, appVars>>

\* the banner "TOO MANY EMPLOYEES TO FIT ON ONE PAGE" and c.save()
save_page ==
    /\ pc = "drawing"
    /\ rank_i > Len(ranks) \/ overflow
    /\ banner' = overflow
    /\ pc' = "saved"
    /\ UNCHANGED <<sheet, columns, error, org_cfg, master, df, totals, unit,
                   detail, summary, shown, name_in, name_out, name_twice,
                   counts, cand, tried, chosen, fitted, rank_i, y_cursor,
                   overflow, blocks, tile, appVars>>

-----------------------------------------------------------------------------
(* render_pdf.py and render_html.py: _status_from_row *)

\* str(value) of a bool
BoolStr(b) == IF b THEN <<"T", "r", "u", "e">> ELSE <<"F", "a", "l", "s", "e">>

\* _coerce_bool(value) on a bool
_coerce_bool(b) == Lower(Strip(BoolStr(b))) \in TrueWords

\* pd.notna(hours) and float(hours) <= 0
HoursAtMostZero(c) == c.k = "num" /\ c.v <= 0

\* _status_from_row(row): "" stands for a row without a usable status
_status_from_row(row) ==
    IF row.status # "" THEN row.status
    ELSE IF _coerce_bool(row.on_leave_master) \/ _coerce_bool(row.inactive_leave)
    THEN "On leave"
    ELSE IF HoursAtMostZero(row.effective_available_hours) THEN "Vacation"
    ELSE IF _coerce_bool(row.missing_timesheet) THEN "Missing timesheet"
    ELSE IF _coerce_bool(row.unmapped_competency) THEN "Unmapped"
    ELSE "Normal"

\* the status each renderer derives for the rows of the dataset, as they
\* are and with the status column blanked
status_from_rows ==
    /\ pc = "dataset"
    /\ derived' = [k \in 1..Len(detail) |->
                     [kept     |-> _status_from_row(detail[k]),
                      fallback |-> _status_from_row([detail[k] EXCEPT !.status = ""])]]
    /\ pc' = "statuses"
    /\ UNCHANGED <<sheet, org_cfg, master, df, totals, unit, detail, summary,
                   shown, name_in, name_out, name_twice,
                   columns, error, renderVars, week, written, enrich_arg>>

-----------------------------------------------------------------------------
(* render_pdf.py and render_html.py: the border and the overlay of a tile *)

\* util < num/den, for a ratio with a positive denominator
Below(u, num, den) == u.n * den < num * u.d

\* util <= num/den
AtMost(u, num, den) == u.n * den <= num * u.d

\* render_pdf._util_color: float(util_val) fails for pd.NA and None, and
\* every comparison with NaN is false
_util_color(u) ==
    IF u.k = "NA" THEN "grey"
    ELSE IF u.k = "num" /\ Below(u, 1, 4) THEN "green"
    ELSE IF u.k = "num" /\ AtMost(u, 3, 4) THEN "yellow"
    ELSE "red"

\* the border of draw_tile: drawn for Normal and Unmapped
PdfBorder(status, u) ==
    IF status \in {"Normal", "Unmapped"} THEN _util_color(u) ELSE "none"

\* the overlay of draw_tile: "" stands for overlay = None
PdfOverlay(status) ==
    CASE status = "Missing timesheet" -> "MISSING TIMESHEET"
      [] status = "Vacation"          -> "VACATION"
      [] status = "On leave"          -> "ON LEAVE"
      [] status = "Unmapped"          -> "UNMAPPED"
      [] OTHER                        -> ""

\* a file on disk: "ok", "missing" (the path does not exist), "corrupt"
\* (Image.open raises) or "truncated" (Image.open succeeds on the header and
\* the first load of the pixels, in convert, raises)
FileStates == {"ok", "missing", "corrupt", "truncated"}

Opens(f) == f \in {"ok", "truncated"}

\* the image of draw_tile: the photo when its path exists, else the
\* placeholder; when that cannot be opened, Image.open(placeholder_path)
\* outside any try; then img.convert
PdfImage(photo, placeholder) ==
    LET first == IF photo # "missing" THEN "photo" ELSE "placeholder"
        state == IF first = "photo" THEN photo ELSE placeholder
    IN  IF Opens(state)
        THEN IF state = "ok" THEN first ELSE "raised"
        ELSE IF Opens(placeholder)
             THEN IF placeholder = "ok" THEN "placeholder" ELSE "raised"
             ELSE "raised"

draw_tile ==
    /\ pc = "tile"
    /\ LET img == PdfImage(tile.photo, tile.placeholder)
       IN  tile' = IF img = "raised"
                   THEN [tile EXCEPT !.pdf_image = img]
                   ELSE [tile EXCEPT !.pdf_image   = img,
                                     !.pdf_border  = PdfBorder(tile.status, tile.util),
                                     !.pdf_overlay = PdfOverlay(tile.status)]
    /\ pc' = "tile_pdf"
    /\ UNCHANGED <<sheet, columns, error, org_cfg, master, df, totals, unit,
                   detail, summary, shown, name_in, name_out, name_twice,
                   counts, cand, tried, chosen, fitted, rank_i, y_cursor,
                   overflow, banner, blocks, appVars>>

\* render_html._overlay_label
_overlay_label(status) ==
    CASE status = "Missing timesheet" -> "MISSING TIMESHEET"
      [] status = "Vacation"          -> "VACATION"
      [] status = "On leave"          -> "LEAVE"
      [] OTHER                        -> ""

\* render_html._border_class
_border_class(status, u) ==
    IF status # "Normal" THEN "border-none"
    ELSE IF u.k = "NA" THEN "border-none"
    ELSE IF u.k = "num" /\ Below(u, 1, 4) THEN "border-green"
    ELSE IF u.k = "num" /\ Below(u, 3, 4) THEN "border-yellow"
    ELSE "border-red"

\* the employee entry that write_ssl_html appends for the row
\* render_html._image_to_data_uri on the photo when its path exists, else
\* on the placeholder: a file that cannot be opened gives a generated grey
\* image; then img.convert
_image_to_data_uri(photo, placeholder) ==
    LET first == IF photo # "missing" THEN "photo" ELSE "placeholder"
        state == IF first = "photo" THEN photo ELSE placeholder
    IN  IF Opens(state)
        THEN IF state = "ok" THEN first ELSE "raised"
        ELSE "generated"

html_employee ==
    /\ pc = "tile_pdf"
    /\ LET img == _image_to_data_uri(tile.photo, tile.placeholder)
       IN  tile' = IF img = "raised"
                   THEN [tile EXCEPT !.html_image = img]
                   ELSE [tile EXCEPT !.html_image   = img,
                                     !.html_border  = _border_class(tile.status, tile.util),
                                     !.html_overlay = _overlay_label(tile.status)]
    /\ pc' = "tile_html"
    /\ UNCHANGED <<sheet, columns, error, org_cfg, master, df, totals, unit,
                   detail, summary, shown, name_in, name_out, name_twice,
                   counts, cand, tried, chosen, fitted, rank_i, y_cursor,
                   overflow, banner, blocks, appVars>>

-----------------------------------------------------------------------------
(* Inputs *)

SeqsUpTo(S, n) == UNION {[1..k -> S] : k \in 0..n}

g1 == <<"1">>

g2 == <<"2">>

tB1 == <<"B", "1">>

tS1 == <<"S", "1">>

tS2 == <<"S", "2">>

c1 == <<"c", "1">>

c2 == <<"c", "2">>

cx == <<"c", "x">>

tTrue == <<"T", "r", "u", "e">>

tFalse == <<"F", "a", "l", "s", "e">>

tActive == <<"A", "c", "t", "i", "v", "e">>

tInactive == <<"I", "n", "a", "c", "t", "i", "v", "e">>

tDoeJ == <<"D", "o", "e", ",", " ", "J">>

tRank == <<"M", "a", "n", "a", "g", "e", "r">>

\* a configuration that declares c1 under (B1, S1) and again under (B1, S2)
CfgConflict ==
    <<[bu |-> tB1, ssl |-> tS1, ca |-> c1], [bu |-> tB1, ssl |-> tS2, ca |-> c1],
      [bu |-> tB1, ssl |-> tS2, ca |-> c2]>>

\* the organisational configuration: c1 -> (B1, S1), c2 -> (B1, S2)
CfgPlain ==
    <<[bu |-> tB1, ssl |-> tS1, ca |-> c1], [bu |-> tB1, ssl |-> tS2, ca |-> c2]>>

\* a roster with one active member of (B1, S1)
MasterOne ==
    <<[gpn |-> g1, active |-> tTrue, on_leave |-> tFalse, bu |-> tB1, ssl |-> tS1]>>

SheetRow(g, n, c, m, st, a, ch) ==
    [GPN |-> g, Name |-> n, Competency |-> c, Rank |-> Str(tRank),
     Missing |-> m, Status |-> st, Avail |-> a, Charge |-> ch]

\* rows for the aggregation: two persons, two units and an unmapped
\* competency, vacation (available <= 0) and missing timesheets
AggHours == {<<Num(-8), Num(20)>>, <<Num(0), Num(20)>>,
             <<Num(40), Num(20)>>, <<Num(40), Num(40)>>}

AggRows ==
    {SheetRow(Str(g), Str(tDoeJ), Str(c), Num(m), Str(tActive), h[1], h[2]) :
        g \in {g1, g2}, c \in {c1, c2, cx}, m \in {0, 1}, h \in AggHours}

\* rows for the loader: empty, blank and real identifiers, Total rows in
\* several spellings, and negative, non-numeric and empty hour cells
LoadNames == {<<"T", "o", "t", "a", "l">>, <<" ", "T", "O", "T", "A", "L", " ">>,
              <<"T", "o", "t", "a", "l", "s">>, tDoeJ}

LoadHours == {<<Num(-8), Str(<<"x">>)>>, <<Nan, Num(-5)>>, <<Num(40), Num(20)>>}

LoadRowsDom ==
    {SheetRow(g, Str(n), Str(c1), Num(0), Str(tActive), h[1], h[2]) :
        g \in {Nan, Str(<<" ">>), Str(g1)}, n \in LoadNames, h \in LoadHours}

\* rows and rosters for the per-unit dataset: every combination of the
\* flags for one person, and roster members that are active, active and on
\* leave, or not active
DatasetRows ==
    {SheetRow(Str(g1), Str(tDoeJ), Str(c), Num(m), Str(st), Num(a), Num(20)) :
        c \in {c1, cx}, m \in {0, 1}, st \in {tActive, tInactive}, a \in {0, 40}}

RosterFlags == {<<tTrue, tFalse>>, <<<<" ", "Y", "E", "S">>, tTrue>>, <<tFalse, tFalse>>}

RosterRows ==
    {[gpn |-> g, active |-> f[1], on_leave |-> f[2], bu |-> tB1, ssl |-> tS1] :
        g \in {g1, g2}, f \in RosterFlags}

NameChars == {"a", "b", " ", ","}

NameArgs == {Nan, Num(7)} \cup {Str(t) : t \in SeqsUpTo(NameChars, MaxNameLen)}

NoSummary ==
    [util_all |-> RNA, util_excl_missing |-> RNA, headcount |-> 0,
     present |-> 0, missing |-> 0, missing_ts |-> 0, vacation |-> 0,
     on_leave |-> 0]

NoShown == [util_all |-> <<>>, util_excl_missing |-> <<>>]

\* rows for the schema: a kept row and a row without identifier
SchemaRows ==
    {SheetRow(g, Str(tDoeJ), Str(c1), Num(1), Str(tInactive), Num(40), Num(20)) :
        g \in {Str(g1), Nan}}

\* the rank_bucket values of the rows: the ranks of the wall and one more
Buckets == {ranks[k] : k \in 1..Len(ranks)} \cup {"Junior Consultant"}

\* section sizes: one tile, four rows of ten, nine rows and ten rows of
\* fifteen
CountValues == {1, 37, 130, 140}

\* the tables with at most MaxBusyRanks non-empty sections
CountTables ==
    {cnt \in [Buckets -> CountValues \cup {0}] :
        Cardinality({b \in Buckets : cnt[b] > 0}) <= MaxBusyRanks}

NoCounts == [b \in Buckets |-> 0]

NoTried == [size |-> 0, cols |-> 0, rows |-> [k \in 1..Len(ranks) |-> 0],
            total |-> 0]

\* utilisation values around the thresholds 1/4 and 3/4, and the values
\* that are not numbers
TileUtils ==
    {RNum(n, 40) : n \in {0, 9, 10, 11, 20, 29, 30, 31, 40, 50}} \cup {RNaN, RNA}

TileStatuses == {"Normal", "Missing timesheet", "Vacation", "On leave", "Unmapped"}

NewTile(status, u, photo, placeholder) ==
    [status |-> status, util |-> u, photo |-> photo, placeholder |-> placeholder,
     pdf_image |-> "", pdf_border |-> "", pdf_overlay |-> "",
     html_image |-> "", html_border |-> "", html_overlay |-> ""]

NoTile == NewTile("", RNA, "ok", "ok")

\* the layout before write_ssl_pdf has chosen a size
InitLayoutOf(tables) ==
    /\ counts \in tables
    /\ cand = 1
    /\ tried = NoTried
    /\ chosen = 0
    /\ fitted = FALSE
    /\ rank_i = 1
    /\ y_cursor = 0
    /\ overflow = FALSE
    /\ banner = FALSE
    /\ blocks = <<>>

\* the application before it has run anything, for the given Week values
InitApp(weeks) ==
    /\ week \in weeks
    /\ written = {}
    /\ enrich_arg = <<>>
    /\ derived = <<>>

\* the state before a run over the given sheets, columns, configurations
\* and rosters
InitEtl(sheets, colsets, cfgs, rosters, names, start) ==
    /\ pc = start
    /\ sheet \in sheets
    /\ columns \in colsets
    /\ error = "none"
    /\ master \in rosters
    /\ org_cfg \in cfgs
    /\ df = <<>>
    /\ totals = {}
    /\ unit = <<NoneVal, NoneVal>>
    /\ detail = <<>>
    /\ summary = NoSummary
    /\ shown = NoShown
    /\ name_in \in names
    /\ name_out = <<>>
    /\ name_twice = <<>>

\* the state before a run over the given sheets and rosters
InitRun(sheets, rosters, names, start) ==
    /\ InitEtl(sheets, {AllColumns}, {CfgPlain}, rosters, names, start)
    /\ InitLayoutOf({NoCounts})
    /\ tile = NoTile
    /\ InitApp({"resolved"})

-----------------------------------------------------------------------------
(* Specifications *)

Init == InitRun(SeqsUpTo(AggRows, MaxRecords), {MasterOne}, {Nan}, "start")

Next ==
    \/ load_powerbi_export
    \/ map_competency_to_ssl
    \/ enrich_flags_and_util
    \/ compute_aggregates
    \/ build_ssl_dataset
    \/ build_ssl_summary
    \/ draw_header_and_summary

Spec == Init /\ [][Next]_vars

InitLoad == InitRun(SeqsUpTo(LoadRowsDom, MaxSheetRows), {MasterOne}, {Nan}, "start")

SpecLoad == InitLoad /\ [][Next]_vars

InitDataset ==
    InitRun(SeqsUpTo(DatasetRows, MaxExportRows), SeqsUpTo(RosterRows, MaxRoster),
            {Nan}, "start")

SpecDataset == InitDataset /\ [][Next]_vars

InitName == InitRun({<<>>}, {<<>>}, NameArgs, "name")

NextName == normalize_once \/ normalize_twice

SpecName == InitName /\ [][NextName]_vars

\* exports with any subset of the columns, under a plain and a conflicting
\* configuration
\* the per-unit dataset followed by the render-time status derivation
NextStatus == Next \/ status_from_rows

SpecStatus == InitDataset /\ [][NextStatus]_vars

\* the application from the upload on: exports with any subset of the
\* columns and any Week value
InitUpload ==
    /\ InitEtl(SeqsUpTo(SchemaRows, MaxExportRows), SUBSET AllColumns,
               {CfgPlain}, {MasterOne}, {Nan}, "run")
    /\ InitLayoutOf({NoCounts})
    /\ tile = NoTile
    /\ InitApp(WeekStates)

NextUpload == run_etl \/ build_ssl_dataset \/ build_ssl_summary \/ write_ssl_excel

SpecUpload == InitUpload /\ [][NextUpload]_vars

InitGreet == InitRun({<<>>}, {<<>>}, NameArgs, "greet")

NextGreet == main

SpecGreet == InitGreet /\ [][NextGreet]_vars

InitSchema ==
    /\ InitEtl(SeqsUpTo(SchemaRows, MaxExportRows), SUBSET AllColumns,
               {CfgPlain, CfgConflict}, {MasterOne}, {Nan}, "start")
    /\ InitLayoutOf({NoCounts})
    /\ tile = NoTile
    /\ InitApp({"resolved"})

SpecSchema == InitSchema /\ [][Next]_vars

InitLayout ==
    /\ InitEtl({<<>>}, {AllColumns}, {CfgPlain}, {<<>>}, {Nan}, "sizing")
    /\ InitLayoutOf(CountTables)
    /\ tile = NoTile
    /\ InitApp({"resolved"})

NextLayout == choose_size \/ draw_rank \/ save_page

SpecLayout == InitLayout /\ [][NextLayout]_vars

InitTile ==
    /\ InitEtl({<<>>}, {AllColumns}, {CfgPlain}, {<<>>}, {Nan}, "tile")
    /\ InitLayoutOf({NoCounts})
    /\ tile \in {NewTile(st, u, f, g) : st \in TileStatuses, u \in TileUtils,
                                         f \in FileStates, g \in FileStates}
    /\ InitApp({"resolved"})

NextTile == draw_tile \/ html_employee

SpecTile == InitTile /\ [][NextTile]_vars

-----------------------------------------------------------------------------
(* Properties *)

AfterLoad == {"loaded", "mapped", "enriched", "aggregated", "dataset", "summary", "drawn"}

AfterEnrich == {"enriched", "aggregated", "dataset", "summary", "drawn"}

AfterAggregate == {"aggregated", "dataset", "summary", "drawn"}

AfterDataset == {"dataset", "summary", "drawn"}

StatusSet == {"Normal", "Unmapped", "Missing timesheet", "Vacation", "On leave"}

\* the sum of a column over the rows at the positions in S
RECURSIVE SumOver(_, _, _)
SumOver(rows, S, col) ==
    IF S = {} THEN 0
    ELSE LET i == CHOOSE j \in S : TRUE
         IN  rows[i][col] + SumOver(rows, S \ {i}, col)

\* the ratio x is the number n / d
IsRatio(x, n, d) == x.k = "num" /\ x.d # 0 /\ d # 0 /\ x.n * d = n * x.d

\* the ratio x carries no value
NoValue(x) == x.k \in {"nan", "NA"}

\* the positions of the non-vacation export records of a unit
UnitRecords(key) ==
    {i \in 1..Len(df) : <<df[i].BU, df[i].SSL>> = key /\ df[i].Avail > 0}

\* C1: every row of build_ssl_dataset has exactly one status of the closed
\* set, the highest-precedence condition that holds for it in the order
\* Normal < Unmapped < Missing timesheet < Vacation < On leave, where on
\* leave is roster on-leave, inactive employment status or absence from
\* the export.
C1_StatusPrecedence ==
    pc \in AfterDataset =>
        \A i \in 1..Len(detail) :
            LET r      == detail[i]
                absent == ~\E j \in 1..Len(df) : df[j].GPN = r.gpn
                leave  == r.on_leave_master \/ r.inactive_leave \/ absent
            IN  /\ r.status \in StatusSet
                /\ r.status =
                      IF leave THEN "On leave"
                      ELSE IF r.vacation THEN "Vacation"
                      ELSE IF r.missing_timesheet THEN "Missing timesheet"
                      ELSE IF r.unmapped_competency THEN "Unmapped"
                      ELSE "Normal"

\* a row that is vacation, missing-timesheet and unmapped, and not on leave
C1_Witness ==
    /\ pc = "dataset"
    /\ \E i \in 1..Len(detail) :
          /\ detail[i].vacation
          /\ detail[i].missing_timesheet
          /\ detail[i].unmapped_competency
          /\ ~detail[i].on_leave_master
          /\ ~detail[i].inactive_leave
          /\ detail[i].status = "Vacation"

\* C2: compute_aggregates leaves every vacation record (available <= 0) out
\* of all sums; util_all of a unit is sum(chargeable) / sum(available) over
\* its non-vacation records, missing-timesheet ones included, and
\* util_excl_missing is the same quotient over those that are not
\* missing-timesheet (no value when there are none).
C2_Ratios ==
    pc \in AfterAggregate =>
        \A t \in totals :
            LET nv  == UnitRecords(<<t.BU, t.SSL>>)
                nvm == {i \in nv : df[i].MissingTimesheets # 1}
            IN  /\ t.total_chargeable = Num(SumOver(df, nv, "Charge"))
                /\ t.total_available = Num(SumOver(df, nv, "Avail"))
                /\ IsRatio(t.util_all, SumOver(df, nv, "Charge"), SumOver(df, nv, "Avail"))
                /\ nvm # {} =>
                      IsRatio(t.util_excl_missing,
                              SumOver(df, nvm, "Charge"), SumOver(df, nvm, "Avail"))
                /\ nvm = {} => NoValue(t.util_excl_missing)

\* records (40, 20, missing) and (40, 40) of one unit: 60/80 and 40/40
C2_Witness ==
    /\ pc = "aggregated"
    /\ Len(df) = 2
    /\ df[1].Avail = 40 /\ df[1].Charge = 20 /\ df[1].MissingTimesheets = 1
    /\ df[2].Avail = 40 /\ df[2].Charge = 40 /\ df[2].MissingTimesheets = 0
    /\ \E t \in totals :
          /\ <<t.BU, t.SSL>> = <<df[1].BU, df[1].SSL>>
          /\ <<t.BU, t.SSL>> = <<df[2].BU, df[2].SSL>>
          /\ IsRatio(t.util_all, 60, 80)
          /\ IsRatio(t.util_excl_missing, 40, 40)

\* C3: chargeable and available hours of every row returned by
\* load_powerbi_export are >= 0, whatever the source cell was.
C3_HoursNonNegative ==
    pc \in AfterLoad =>
        \A i \in 1..Len(df) : df[i].Avail >= 0 /\ df[i].Charge >= 0

\* C4: enrich_flags_and_util sets utilization to chargeable / available
\* exactly when available > 0 and to no value when available <= 0.
C4_UtilOnlyWhenPositive ==
    pc \in AfterEnrich =>
        \A i \in 1..Len(df) :
            /\ df[i].Avail > 0 => IsRatio(df[i].util, df[i].Charge, df[i].Avail)
            /\ df[i].Avail <= 0 => NoValue(df[i].util)

\* the competency area is declared in the organisational configuration
Declared(ca) == \E j \in 1..Len(org_cfg) : org_cfg[j].ca = ca

\* the positions of the non-vacation records that resolved to no unit
UnmappedRecords == {i \in 1..Len(df) : ~Declared(df[i].Competency) /\ df[i].Avail > 0}

\* C5 as stated: compute_aggregates produces groups only for resolved
\* (BU, SSL) pairs and no group for the missing unit.
C5_NoGroupForMissingUnit ==
    pc \in AfterAggregate =>
        \A t \in totals : t.BU # NoneVal /\ t.SSL # NoneVal

\* C5 amended: unmapped records contribute to no resolved unit's totals
\* row; compute_aggregates collects the non-vacation ones in one further
\* totals row whose unit key is missing.
C5_UnmappedInOwnGroup ==
    pc \in AfterAggregate =>
        /\ \A t \in totals :
              (t.BU = NoneVal) = (t.SSL = NoneVal)
        /\ \A t \in totals :
              t.BU # NoneVal =>
                  /\ \A i \in UnitRecords(<<t.BU, t.SSL>>) : Declared(df[i].Competency)
                  /\ t.total_available =
                        Num(SumOver(df, UnitRecords(<<t.BU, t.SSL>>) \ UnmappedRecords, "Avail"))
        /\ (UnmappedRecords # {}) = (\E t \in totals : t.BU = NoneVal)
        /\ \A t \in totals :
              t.BU = NoneVal =>
                  /\ t.total_chargeable = Num(SumOver(df, UnmappedRecords, "Charge"))
                  /\ t.total_available = Num(SumOver(df, UnmappedRecords, "Avail"))

\* a run with a totals row for a resolved unit and one for the missing unit
C5_Witness ==
    /\ pc = "aggregated"
    /\ \E t \in totals : t.BU = NoneVal /\ t.headcount = 1
    /\ \E t \in totals : t.BU # NoneVal /\ t.headcount = 1

\* the non-vacation records of the unit the report is generated for
ReportRecords ==
    {i \in 1..Len(df) : df[i].BU = unit[1] /\ df[i].SSL = unit[2] /\ df[i].Avail > 0}

\* C6: a zero-denominator aggregate ratio (a unit whose records are all
\* vacation; util_excl_missing of a unit whose non-vacation records are all
\* missing-timesheet) is no value in compute_aggregates and
\* build_ssl_summary, and _fmt_percent displays it as a dash.
C6_ZeroDenominatorDash ==
    pc = "drawn" =>
        LET nv  == ReportRecords
            nvm == {i \in nv : df[i].MissingTimesheets # 1}
        IN  /\ nv = {} => (NoValue(summary.util_all) /\ shown.util_all = <<"-">>)
            /\ nvm = {} =>
                  /\ \A t \in totals :
                        (t.BU = unit[1] /\ t.SSL = unit[2]) => NoValue(t.util_excl_missing)
                  /\ NoValue(summary.util_excl_missing)
                  /\ shown.util_excl_missing = <<"-">>

\* the identifiers of the export
Persons == {df[i].GPN : i \in 1..Len(df)}

\* C7: the headcount of each unit equals the number of distinct person
\* identifiers among the unit's non-vacation records.
C7_Headcount ==
    pc \in AfterAggregate =>
        /\ \A t \in totals :
              t.headcount =
                  Cardinality({p \in Persons :
                                  \E i \in UnitRecords(<<t.BU, t.SSL>>) : df[i].GPN = p})
        /\ \A i \in 1..Len(df) :
              df[i].Avail > 0 => \E t \in totals : <<t.BU, t.SSL>> = <<df[i].BU, df[i].SSL>>

\* one person with two non-vacation rows in one unit counts once
C7_Witness ==
    /\ pc = "aggregated"
    /\ Len(df) = 2
    /\ df[1].GPN = df[2].GPN
    /\ df[1].Avail > 0 /\ df[2].Avail > 0
    /\ \E t \in totals :
          /\ <<t.BU, t.SSL>> = <<df[1].BU, df[1].SSL>>
          /\ <<t.BU, t.SSL>> = <<df[2].BU, df[2].SSL>>
          /\ t.headcount = 1

\* the name cell, trimmed and compared case-insensitively, equals "Total"
IsTotalName(c) == c.k = "str" /\ Lower(Strip(c.s)) = <<"t", "o", "t", "a", "l">>

TotalPositions == {i \in 1..Len(sheet) : IsTotalName(sheet[i].Name)}

\* the position of the first Total row, or one past the last row
FirstTotal ==
    IF TotalPositions = {} THEN Len(sheet) + 1
    ELSE CHOOSE i \in TotalPositions : \A j \in TotalPositions : i <= j

\* C8: load_powerbi_export keeps only rows strictly before the first Total
\* row (that row and all later rows are discarded, also ones with a valid
\* identifier); without a Total row the whole table is kept.  Kept means:
\* passed on to the identifier filter, which drops the rows whose
\* identifier cell is empty.
C8_TruncateAtTotal ==
    pc \in AfterLoad =>
        /\ {df[i].index : i \in 1..Len(df)} =
              {i \in 1..(FirstTotal - 1) : sheet[i].GPN.k # "nan"}
        /\ \A i, j \in 1..Len(df) : i < j => df[i].index < df[j].index

\* a Total row followed by a row with a valid identifier: nothing is kept
C8_Witness ==
    /\ pc = "loaded"
    /\ Len(sheet) = 2
    /\ IsTotalName(sheet[1].Name)
    /\ sheet[1].Name.s # <<"T", "o", "t", "a", "l">>
    /\ sheet[2].GPN = Str(g1)
    /\ ~IsTotalName(sheet[2].Name)
    /\ df = <<>>

Words == SeqsUpTo({"a", "b"}, 2) \ {<<>>}

CommaCount(t) == Cardinality({i \in 1..Len(t) : t[i] = ","})

Blank(t) == \A i \in 1..Len(t) : t[i] = " "

\* exactly one comma, with text that is not blank on both sides
OneCommaTwoParts(t) ==
    /\ CommaCount(t) = 1
    /\ \E p \in 1..Len(t) :
          /\ t[p] = ","
          /\ ~Blank(SubSeq(t, 1, p - 1))
          /\ ~Blank(SubSeq(t, p + 1, Len(t)))

\* "Last, First" is rewritten to "First Last"
C10_Rewrite ==
    pc \in {"named", "renamed"} =>
        \A l \in Words, f \in Words :
            name_in = Str(l \o <<",", " ">> \o f) => name_out = f \o <<" ">> \o l

\* non-string and empty input gives the empty string
C10_Empty ==
    (pc \in {"named", "renamed"} /\ (name_in.k # "str" \/ name_in.s = <<>>)) =>
        name_out = <<>>

-----------------------------------------------------------------------------
(* Properties of the loader's schema and of the mapping configuration *)

AfterMap == {"mapped", "enriched", "aggregated", "dataset", "summary", "drawn"}

\* C11: the load fails if and only if the GPN column or the Competency
\* column is absent, it then fails with SchemaError, and after a load that
\* did not fail every absent optional column holds its default ("" or 0).
C11_FailsOnlyOnKeyColumns ==
    pc # "start" =>
        /\ pc = "failed" <=> ("GPN" \notin columns \/ "Competency" \notin columns)
        /\ pc = "failed" => error = "SchemaError"
        /\ pc \in AfterLoad =>
              \A i \in 1..Len(df) :
                  /\ "Rank Description" \notin columns => df[i].Rank = <<>>
                  /\ "Missing Timesheets" \notin columns => df[i].MissingTimesheets = 0
                  /\ "Employee Status" \notin columns =>
                         AsStr(df[i].EmployeeStatus) = <<>>
                  /\ "Effective Available Hours" \notin columns => df[i].Avail = 0
                  /\ "Chargeable Hours" \notin columns => df[i].Charge = 0

\* the configuration declares one competency area under two different targets
Conflicting(cfg) ==
    \E i, j \in 1..Len(cfg) :
        /\ cfg[i].ca = cfg[j].ca
        /\ <<cfg[i].bu, cfg[i].ssl>> # <<cfg[j].bu, cfg[j].ssl>>

\* C12: under a configuration that declares the same competency area under
\* two different (BU, SSL) targets the mapping fails with ConfigError, so no
\* mapped table is ever produced from it.
C12_ConflictRaises == Conflicting(org_cfg) => pc \notin AfterMap

-----------------------------------------------------------------------------
(* Properties of the layout *)

Sized == {"drawing", "saved"}

\* the ranks of the wall that have tiles
NonEmpty == {k \in 1..Len(ranks) : counts[ranks[k]] > 0}

\* the least number of rows of c tiles that hold n tiles
CeilDiv(n, c) == CHOOSE r \in 0..n : r * c >= n /\ (r - 1) * c < n

\* the height of r rows of tiles with the gaps between them
RowsHeight(r, size) == r * tile_h(size) + (r - 1) * row_gap

\* the height of block k below its title line, with the given trailing gap
BlockOf(k, size, c, gap) ==
    (title_h + 3) + RowsHeight(CeilDiv(counts[ranks[k]], c), size) + 10
    + (IF ranks[k] = split_rank THEN 10 ELSE 0) + gap

RECURSIVE BlockSum(_, _, _, _)
BlockSum(S, size, c, gap) ==
    IF S = {} THEN 0
    ELSE LET k == CHOOSE x \in S : TRUE
         IN  BlockOf(k, size, c, gap) + BlockSum(S \ {k}, size, c, gap)

\* the position of rank r in the list of ranks
RankIndex(r) == CHOOSE k \in 1..Len(ranks) : ranks[k] = r

\* C13: for every candidate size the column count is
\* max(1, floor((usable width + column gap) / (tile width + column gap)))
\* with tile width = size + 12, and every rank with n > 0 tiles takes
\* exactly ceil(n / columns) rows, in the sizing and on the page.
C13_ColumnsAndRows ==
    /\ tried.size # 0 =>
          LET w == (tried.size + 12) + col_gap
              c == tried.cols
          IN  /\ c >= 1
              /\ c > 1 => c * w <= available_w + col_gap
              /\ (c + 1) * w > available_w + col_gap
              /\ \A k \in NonEmpty :
                    /\ tried.rows[k] * c >= counts[ranks[k]]
                    /\ (tried.rows[k] - 1) * c < counts[ranks[k]]
    /\ \A i \in 1..Len(blocks) :
          blocks[i].drawn = counts[blocks[i].rank] =>
              blocks[i].title_y - blocks[i].bottom =
                  (title_h + 3) + RowsHeight(tried.rows[RankIndex(blocks[i].rank)], chosen)

\* 37 tiles at 10 columns have been drawn in 4 rows
C13_Witness ==
    /\ pc = "saved"
    /\ tried.size = 60
    /\ tried.cols = 10
    /\ \E i \in 1..Len(blocks) :
          /\ counts[blocks[i].rank] = 37
          /\ blocks[i].drawn = 37
          /\ tried.rows[RankIndex(blocks[i].rank)] = 4

\* the candidates whose required height is within the available height
Fitting == {i \in 1..Len(sizes) : required_height(counts, sizes[i]) <= available_h}

\* C14: the chosen size is the largest candidate whose required height is
\* at most the available height: it fits, no larger candidate fits, and a
\* fitting size is chosen whenever some candidate fits.
C14_LargestFitting ==
    (pc \in Sized /\ Fitting # {}) =>
        /\ fitted
        /\ \E i \in Fitting : sizes[i] = chosen
        /\ \A i \in Fitting : sizes[i] <= chosen

\* a size below the largest was chosen after the larger ones were rejected
C14_Witness == pc = "saved" /\ fitted /\ chosen = 60 /\ cand = 6

\* C15: when at least one candidate fits, no overflow is reported.
C15_NoOverflowWhenFits == Fitting # {} => (~overflow /\ ~banner)

\* two sections drawn in full at a size below the largest, the first one
\* that fits
C15_Witness ==
    /\ pc = "saved"
    /\ Fitting # {}
    /\ chosen < sizes[1]
    /\ Len(blocks) = 2
    /\ \A i \in 1..Len(blocks) : blocks[i].drawn = counts[blocks[i].rank]
    /\ ~overflow

LastRowBottom(k) ==
    (y_start - BlockSum({j \in NonEmpty : j < k}, chosen, cols(chosen), 0))
    - (title_h + 3)
    - RowsHeight(CeilDiv(counts[ranks[k]], cols(chosen)), chosen)

C17_EmptyRankAddsNothing ==
    /\ tried.size # 0 =>
          tried.total = BlockSum(NonEmpty, tried.size, tried.cols, section_gap)
    /\ \A i \in 1..Len(blocks) : counts[blocks[i].rank] > 0
    /\ (pc = "saved" /\ ~overflow) =>
          /\ Len(blocks) = Cardinality(NonEmpty)
          /\ y_cursor = y_start - BlockSum(NonEmpty, chosen, cols(chosen), 0)
    /\ NonEmpty = {} =>
          /\ tried.total = 0
          /\ blocks = <<>>
          /\ ~overflow /\ ~banner
          /\ pc \in Sized => (fitted /\ chosen = sizes[1] /\ y_cursor = y_start)

\* a page saved with every rank empty: nothing was required and nothing
\* was drawn
C17_Witness ==
    /\ pc = "saved"
    /\ NonEmpty = {}
    /\ tried.total = 0
    /\ chosen = sizes[1]
    /\ ~overflow

-----------------------------------------------------------------------------
(* Properties of the tile *)

\* both renderers have produced the tile
Rendered ==
    /\ pc = "tile_html"
    /\ tile.pdf_image # "raised"
    /\ tile.html_image # "raised"

Bordered == {"Normal", "Unmapped"}

\* C18: a tile gets a utilization-coloured border if and only if its status
\* is Normal or Unmapped, in the PDF and in the HTML renderer.
C18_BorderIffNormalOrUnmapped ==
    (Rendered /\ tile.util.k = "num") =>
        /\ tile.pdf_border # "none" <=> tile.status \in Bordered
        /\ tile.html_border # "border-none" <=> tile.status \in Bordered

\* the bucket of a utilization: low below 1/4, mid up to 3/4, high above
Bucket(u) ==
    IF u.n * 4 < u.d THEN "low" ELSE IF u.n * 4 <= 3 * u.d THEN "mid" ELSE "high"

PdfColourOf(b) == IF b = "low" THEN "green" ELSE IF b = "mid" THEN "yellow" ELSE "red"

HtmlClassOf(b) ==
    IF b = "low" THEN "border-green"
    ELSE IF b = "mid" THEN "border-yellow" ELSE "border-red"

\* C19: the border colour follows the buckets util < 0.25 (low),
\* 0.25 <= util <= 0.75 (mid) and util > 0.75 (high) in both renderers, so
\* that exactly 0.25 and exactly 0.75 are both mid.
C19_Buckets ==
    (Rendered /\ tile.status = "Normal" /\ tile.util.k = "num") =>
        /\ tile.pdf_border = PdfColourOf(Bucket(tile.util))
        /\ tile.html_border = HtmlClassOf(Bucket(tile.util))

\* C20: Missing timesheet, Vacation, On leave and Unmapped each get a
\* non-empty overlay label and Normal gets none, in both renderers.
C20_Overlays ==
    Rendered =>
        /\ tile.status \in TileStatuses \ {"Normal"} =>
              (tile.pdf_overlay # "" /\ tile.html_overlay # "")
        /\ tile.status = "Normal" =>
              (tile.pdf_overlay = "" /\ tile.html_overlay = "")

-----------------------------------------------------------------------------
(* Properties of greet *)

\* C24: greet returns "Hello, World!" when called with no name or with a
\* falsy name, and "Hello, <name>!" for every non-empty name.
C24_Greeting ==
    pc = "greeted" =>
        /\ (name_in = Nan \/ name_in = Str(<<>>)) => name_out = sHelloWorld
        /\ (name_in.k = "str" /\ name_in.s # <<>>) =>
              /\ Len(name_out) = Len(name_in.s) + 8
              /\ SubSeq(name_out, 1, 7) = sHello
              /\ SubSeq(name_out, 8, Len(name_out) - 1) = name_in.s
              /\ name_out[Len(name_out)] = "!"

\* a blank but non-empty name has been greeted by name
C24_Witness ==
    /\ pc = "greeted"
    /\ name_in = Str(<<" ">>)
    /\ name_out = <<"H", "e", "l", "l", "o", ",", " ", " ", "!">>

-----------------------------------------------------------------------------
(* Properties of the photo of a tile *)

\* C21: a missing or unreadable photo or placeholder never makes a render
\* fail: both renderers end with a substitute image and raise nothing.
C21_PhotoNeverFails ==
    /\ pc \in {"tile_pdf", "tile_html"} => tile.pdf_image # "raised"
    /\ pc = "tile_html" => tile.html_image # "raised"

-----------------------------------------------------------------------------
(* Properties of the roster in the per-unit dataset *)

\* the positions of the roster members that are active and assigned to the
\* unit of the report
Members ==
    {i \in 1..Len(master) :
        /\ Lower(Strip(master[i].active)) \in TrueWords
        /\ Strip(master[i].bu) = unit[1]
        /\ Strip(master[i].ssl) = unit[2]}

\* the export records of roster member i
RecordsOf(i) == {j \in 1..Len(df) : Strip(df[j].GPN) = Strip(master[i].gpn)}

UniqueIdentifiers ==
    \A j, k \in 1..Len(df) : Strip(df[j].GPN) = Strip(df[k].GPN) => j = k

\* the k-th member, in roster order
MemberAt(k) == CHOOSE i \in Members : Cardinality({j \in Members : j < i}) = k - 1

\* C22: build_ssl_dataset returns rows for exactly the roster members that
\* are active and assigned to the unit, in the export or not, one row per
\* member when the export identifiers are unique, and a member that is absent
\* from the export, on leave in the roster or inactive in the export gets
\* status On leave.
C22_RosterDecidesRows ==
    pc \in AfterDataset =>
        /\ {detail[k].gpn : k \in 1..Len(detail)} =
               {Strip(master[i].gpn) : i \in Members}
        /\ UniqueIdentifiers =>
              /\ Len(detail) = Cardinality(Members)
              /\ \A k \in 1..Len(detail) :
                    LET i == MemberAt(k)
                    IN  /\ detail[k].gpn = Strip(master[i].gpn)
                        /\ ( \/ RecordsOf(i) = {}
                             \/ Lower(Strip(master[i].on_leave)) \in TrueWords
                             \/ \E j \in RecordsOf(i) :
                                   Lower(AsStr(df[j].EmployeeStatus)) = sInactive )
                           => detail[k].status = "On leave"

\* a report with a member who is in the export and one who is not
C22_Witness ==
    /\ pc = "dataset"
    /\ Len(master) = 2
    /\ Len(detail) = 2
    /\ \E k \in 1..2 : RecordsOf(MemberAt(k)) = {} /\ detail[k].status = "On leave"
    /\ \E k \in 1..2 : RecordsOf(MemberAt(k)) # {} /\ detail[k].status = "Normal"

-----------------------------------------------------------------------------
(* Properties of the utilization behind a border *)

\* C29: a row of build_ssl_dataset with status Normal or Unmapped is present
\* in the export with available hours > 0 and has a defined, finite
\* utilization, so a border colour is never computed from a missing value.
C29_BorderHasUtilization ==
    pc \in AfterDataset =>
        \A k \in 1..Len(detail) :
            detail[k].status \in {"Normal", "Unmapped"} =>
                /\ \E j \in 1..Len(df) : Strip(df[j].GPN) = detail[k].gpn
                /\ detail[k].effective_available_hours.k = "num"
                /\ detail[k].effective_available_hours.v > 0
                /\ detail[k].util.k = "num"
                /\ detail[k].util.d > 0

\* an Unmapped row and its utilization 20/40
C29_Witness ==
    /\ pc = "dataset"
    /\ \E k \in 1..Len(detail) :
          /\ detail[k].status = "Unmapped"
          /\ detail[k].util = RNum(20, 40)

-----------------------------------------------------------------------------
(* Properties of the render-time status *)

\* C30: _status_from_row returns a non-empty precomputed status verbatim,
\* and for a row without one it derives the status that build_ssl_dataset's
\* chain gave the row, for every flag combination and for roster members
\* absent from the export.
C30_RenderStatusAgrees ==
    pc = "statuses" =>
        \A k \in 1..Len(detail) :
            /\ derived[k].kept = detail[k].status
            /\ derived[k].fallback = detail[k].status

-----------------------------------------------------------------------------
(* Properties of the drawn blocks *)

\* C26: the non-empty blocks are drawn in the order of the rank list, and
\* each starts at the cumulative height that required_height computes, for
\* the chosen size, for the non-empty ranks before it.
C26_OffsetsAreCumulativeHeights ==
    /\ \A i, j \in 1..Len(blocks) :
          i < j => RankIndex(blocks[i].rank) < RankIndex(blocks[j].rank)
    /\ \A i \in 1..Len(blocks) :
          blocks[i].title_y =
              y_start - height_upto(counts, chosen, RankIndex(blocks[i].rank) - 1)

RECURSIVE RowsIn(_)
RowsIn(B) ==
    IF B = {} THEN 0
    ELSE LET b == CHOOSE x \in B : TRUE IN counts[b] + RowsIn(B \ {b})

RECURSIVE TilesDrawn(_)
TilesDrawn(i) == IF i = 0 THEN 0 ELSE blocks[i].drawn + TilesDrawn(i - 1)

\* C28: after the drawing loop either overflow is reported and the banner
\* shown, or the number of tiles drawn equals the number of rows of the
\* dataset.
C28_DrawnOrOverflow ==
    pc = "saved" =>
        \/ overflow /\ banner
        \/ TilesDrawn(Len(blocks)) = RowsIn(Buckets)

-----------------------------------------------------------------------------
(* Frame properties of the derivations *)

-----------------------------------------------------------------------------
(* Properties of the order of the steps *)

\* the records carry the columns of the mapping and of the enrichment
Derived ==
    \A i \in 1..Len(df) : {"BU", "SSL", "util", "vacation"} \subseteq DOMAIN df[i]

\* C25: the steps of a run occur in the order load, map, enrich, aggregate,
\* and a unit's dataset, summary or drawing step only begins when the
\* aggregation is complete.
C25_StepOrder ==
    [][ pc' # pc =>
          /\ pc' = "loaded" => pc = "start"
          /\ pc' = "mapped" => pc = "loaded"
          /\ pc' = "enriched" => pc = "mapped"
          /\ pc' = "aggregated" => (pc = "enriched" /\ totals' = Aggregates(df))
          /\ pc' \in AfterDataset =>
                /\ pc \in AfterAggregate
                /\ Derived
                /\ totals = Aggregates(df)
                /\ totals' = totals /\ df' = df ]_vars

\* a run that went through every step for a unit with records
C25_Witness ==
    /\ pc = "drawn"
    /\ totals # {}
    /\ detail # <<>>
    /\ Derived

-----------------------------------------------------------------------------
(* Properties of a failed run *)

\* C23: when run_etl raises, no report has been written: every report is
\* written only after run_etl has returned without an exception.
C23_NoReportAfterFailedRun ==
    /\ error # "none" => (written = {} /\ detail = <<>> /\ pc \in {"failed", "stopped"})
    /\ written # {} => (error = "none" /\ pc \in {"aggregated", "dataset", "summary", "generated"})

\* a run stopped by the Week check, with nothing written
C23_Witness ==
    /\ pc = "stopped"
    /\ error = sValueError
    /\ written = {}

====
